---- MODULE Spec2Model ----
(***************************************************************************)
(* Transaction submission (handleTx, two implementations), the Transaction *)
(* builder class and the ChainProvider chain selection of the front-end.   *)
(*                                                                         *)
(* An action is the code that runs between two awaits: it starts when the  *)
(* awaited promise settles and ends at the next await or at the return.    *)
(* Calls into the wallet library and into the callbacks of the caller are  *)
(* recorded, in order, in a trace.                                         *)
(***************************************************************************)
EXTENDS Integers, Sequences, FiniteSets, TLC

VARIABLES
    \* ---- handleTx ----
    impl,           \* which handleTx runs: "handleTx.ts" or "tools.transactions.ts"
    args,           \* the TWriteTransaction argument
    props,          \* the TPrepareWriteContractConfig argument
    pc,             \* the await handleTx is suspended at
    chainID,        \* tools.transactions.ts: const chainID = await connector.getChainId()
    stateChainId,   \* the active chain: config.state.chainId / the connector's chain
    trace,          \* the external calls, their returns and the timer callbacks
    result,         \* what the promise of handleTx settled with
    timers,         \* delays of the setTimeout callbacks not yet run
    fallbackResult, \* what onTrySomethingElse resolved with
    \* ---- Transaction ----
    tx,             \* the fields of the Transaction object
    txPc,           \* the await perform() is suspended at
    txTrace,        \* calls of onStatus, funcCall and successCall
    txResult,       \* what perform() resolved with
    txTimers,       \* delays of the setTimeout callbacks not yet run
    funcResult,     \* what funcCall settled with
    \* ---- ChainProvider ----
    accountChainID, \* useAccount().chainId, 0 when undefined
    fromChainID,    \* useChainId()
    chainSlug,      \* useParams().chain, <<>> when undefined
    context         \* the value of ChainContext.Provider

txVars == <<impl, args, props, pc, chainID, stateChainId, trace, result, timers,
            fallbackResult>>
transactionVars == <<tx, txPc, txTrace, txResult, txTimers, funcResult>>
chainVars == <<accountChainID, fromChainID, chainSlug, context>>
vars == <<txVars, transactionVars, chainVars>>

(***************************************************************************)
(* Constants of the program                                                *)
(***************************************************************************)
timeout == 3000

defaultTxStatus == [none |-> TRUE, pending |-> FALSE, success |-> FALSE, error |-> FALSE,
                    errorMessage |-> ""]
errorTxStatus == [none |-> FALSE, pending |-> FALSE, success |-> FALSE, error |-> TRUE,
                  errorMessage |-> ""]
pendingTxStatus == [none |-> FALSE, pending |-> TRUE, success |-> FALSE, error |-> FALSE,
                    errorMessage |-> ""]
successTxStatus == [none |-> FALSE, pending |-> FALSE, success |-> TRUE, error |-> FALSE,
                    errorMessage |-> ""]

\* {...defaultTxStatus, <field>: true, errorMessage: msg}
WithPending(s) == [s EXCEPT !.pending = TRUE]
WithSuccess(s) == [s EXCEPT !.success = TRUE]
WithError(s, msg) == [s EXCEPT !.error = TRUE, !.errorMessage = msg]

UserRejected == "User rejected the request."
ExecutionError == "ContractFunctionExecutionError"

\* Chains the wallet can be on; 10 and 8453 are the supported ones.
Chains == {1, 10, 8453}

\* What an awaited library call can throw.
Errors ==
    { [base |-> FALSE, name |-> "Error", shortMessage |-> ""],
      [base |-> TRUE, name |-> ExecutionError, shortMessage |-> UserRejected],
      [base |-> TRUE, name |-> ExecutionError, shortMessage |-> "execution reverted"],
      [base |-> TRUE, name |-> "TransactionExecutionError", shortMessage |-> UserRejected],
      [base |-> TRUE, name |-> "HttpRequestError", shortMessage |-> "request failed"] }

NoResult == [settled |-> "no", isSuccessful |-> FALSE, receipt |-> "none", error |-> ""]
Resolved(ok, receipt, error) ==
    [settled |-> "resolved", isSuccessful |-> ok, receipt |-> receipt, error |-> error]
Rejected(error) ==
    [settled |-> "rejected", isSuccessful |-> FALSE, receipt |-> "none", error |-> error]

\* What the fallback of the caller can resolve with.
FallbackResults ==
    { Resolved(TRUE, "success", ""), Resolved(TRUE, "none", ""),
      Resolved(FALSE, "reverted", ""), Resolved(FALSE, "none", "Error") }

Impls == {"handleTx.ts", "tools.transactions.ts"}

ArgsSet ==
    [chainID : {10, 8453}, shouldResetStatus : {"true", "false", "undefined"},
     onTrySomethingElse : BOOLEAN, config : BOOLEAN, connector : BOOLEAN]
PropsSet == [address : {"undefined", "invalid", "valid"}]

\* One entry of the trace.
NoError == [base |-> FALSE, name |-> "", shortMessage |-> ""]
Event(ev, fn, status, chain, value, error, delay, active) ==
    [ev |-> ev, fn |-> fn, status |-> status, chainId |-> chain, value |-> value,
     error |-> error, delay |-> delay, active |-> active]
\* args.statusHandler?.(status): the caller supplies a statusHandler in the runs modelled.
StatusCall(status, active) ==
    Event("call", "statusHandler", status, 0, "", NoError, 0, active)
LibCall(fn, chain, active) ==
    Event("call", fn, defaultTxStatus, chain, "", NoError, 0, active)
LibReturn(fn, value, active) ==
    Event("return", fn, defaultTxStatus, 0, value, NoError, 0, active)
LibThrow(fn, err, active) ==
    Event("throw", fn, defaultTxStatus, 0, "", err, 0, active)
TimerCall(status, delay, active) ==
    Event("call", "statusHandler", status, 0, "", NoError, delay, active)

(***************************************************************************)
(* handleTx                                                                *)
(***************************************************************************)
IsTools(i) == i = "tools.transactions.ts"

\* const {shouldResetStatus = true} = args
ShouldResetStatus(a) ==
    IF a.shouldResetStatus = "undefined" THEN TRUE ELSE a.shouldResetStatus = "true"

\* finally { if (shouldResetStatus) setTimeout(() => statusHandler(defaultTxStatus), 3000) }
Finally(a, t) == IF ShouldResetStatus(a) THEN Append(t, timeout) ELSE t

\* Mutant: the address is not validated.
InvalidConfig_NoAddressCheck(a, p) == ~a.config \/ ~a.connector

\* if (!config || !address || !connector)
InvalidConfig(a, p) == ~a.config \/ p.address = "undefined" \/ ~a.connector

\* The chain id handleTx works with after the chain switch: config.state.chainId read
\* again (handleTx.ts) or the const chainID read before the switch (tools.transactions.ts).
LocalChainId(i, cid, active) == IF IsTools(i) THEN cid ELSE active

\* errorMessage of the error status: handleTx.ts sets one, tools.transactions.ts none.
ErrorStatus(i, msg) ==
    IF IsTools(i) THEN WithError(defaultTxStatus, "") ELSE WithError(defaultTxStatus, msg)

\* await switchChain(config, {chainId: args.chainID})
CallSwitchChain(a, active, log) ==
    [pc |-> "switchChain", trace |-> Append(log, LibCall("switchChain", a.chainID, active)),
     result |-> NoResult]

\* assertAddress, assert(chainID === args.chainID), then await simulateContract(...)
ContractInteraction(i, a, p, cid, active, log) ==
    IF IsTools(i) /\ p.address # "valid"
    THEN [pc |-> "done", trace |-> log, result |-> Rejected("contractAddress is not set")]
    ELSE IF LocalChainId(i, cid, active) # a.chainID
    THEN [pc |-> "done", trace |-> log, result |-> Rejected("ChainID mismatch")]
    ELSE [pc |-> "simulateContract",
          trace |-> Append(log, LibCall("simulateContract", LocalChainId(i, cid, active),
                                        active)),
          result |-> NoResult]

\* Mutant: the chain switch is requested whatever the active chain is.
SwitchIfNeeded_Always(i, a, p, cid, active, log) == CallSwitchChain(a, active, log)

\* if (chainID !== args.chainID) { switchChain } ... contract interaction
SwitchIfNeeded(i, a, p, cid, active, log) ==
    IF LocalChainId(i, cid, active) # a.chainID
    THEN CallSwitchChain(a, active, log)
    ELSE ContractInteraction(i, a, p, cid, active, log)

\* Mutant: a user rejection reported as an execution error also tries the fallback.
TriesSomethingElse_AnyExecutionError(i, a, err) ==
    /\ IsTools(i)
    /\ a.onTrySomethingElse
    /\ err.name = ExecutionError

\* if (args.onTrySomethingElse) { if (name === ... && shortMessage !== ...) }
TriesSomethingElse(i, a, err) ==
    /\ IsTools(i)
    /\ a.onTrySomethingElse
    /\ err.name = ExecutionError
    /\ err.shortMessage # UserRejected

\* catch (error) { ... } of the contract interaction, up to its return or its await
Catch(i, a, err, active, log) ==
    IF ~err.base
    THEN [pc |-> "done", trace |-> log, result |-> Resolved(FALSE, "none", err.name)]
    ELSE IF TriesSomethingElse(i, a, err)
    THEN [pc |-> "onTrySomethingElse",
          trace |-> Append(log, LibCall("onTrySomethingElse", 0, active)),
          result |-> NoResult]
    ELSE [pc |-> "done",
          trace |-> Append(log, StatusCall(ErrorStatus(i, err.shortMessage), active)),
          result |-> Resolved(FALSE, "none", err.name)]

\* The status emitted for a receipt.
ReceiptStatus(i, status) ==
    IF status = "success"
    THEN WithSuccess(defaultTxStatus)
    ELSE ErrorStatus(i, "Transaction reverted")

\* Mutant: every mined transaction counts as successful.
ReceiptResult_AlwaysSuccessful(status) == Resolved(TRUE, status, "")

\* return {isSuccessful: receipt.status === 'success', receipt}
ReceiptResult(status) == Resolved(status = "success", status, "")

Awaiting == {"getChainId", "switchChain", "simulateContract", "writeContract",
             "waitForTransactionReceipt", "onTrySomethingElse"}

InitTx ==
    /\ impl = "none"
    /\ args = [chainID |-> 10, shouldResetStatus |-> "undefined",
               onTrySomethingElse |-> FALSE, config |-> TRUE, connector |-> TRUE]
    /\ props = [address |-> "valid"]
    /\ pc = "idle"
    /\ chainID = 0
    /\ stateChainId \in Chains
    /\ trace = <<>>
    /\ result = NoResult
    /\ timers = <<>>
    /\ fallbackResult = NoResult

\* The arguments a caller can pass: handleTx.ts has no connector, no fallback.
ValidCall(i, a, p) ==
    IsTools(i) \/ (a.config /\ a.connector /\ ~a.onTrySomethingElse)

\* handleTx(args, props) up to its first await
HandleTx(i, a, p) ==
    /\ pc = "idle"
    /\ ValidCall(i, a, p)
    /\ impl' = i
    /\ args' = a
    /\ props' = p
    /\ IF IsTools(i)
       THEN IF InvalidConfig(a, p)
            THEN /\ pc' = "done"
                 /\ trace' = trace
                 /\ result' = Resolved(FALSE, "none",
                                       "Invalid config or connector or address")
            ELSE /\ pc' = "getChainId"
                 /\ trace' = <<StatusCall(WithPending(defaultTxStatus), stateChainId),
                               LibCall("getChainId", 0, stateChainId)>>
                 /\ result' = NoResult
       ELSE LET next == SwitchIfNeeded(i, a, p, chainID, stateChainId,
                            <<StatusCall(WithPending(defaultTxStatus), stateChainId)>>)
            IN  /\ pc' = next.pc
                /\ trace' = next.trace
                /\ result' = next.result
    /\ UNCHANGED <<chainID, stateChainId, timers, fallbackResult>>
    /\ UNCHANGED <<transactionVars, chainVars>>

\* const chainID = await connector.getChainId() resolves
GetChainIdResolves ==
    /\ pc = "getChainId"
    /\ chainID' = stateChainId
    /\ LET next == SwitchIfNeeded(impl, args, props, stateChainId, stateChainId,
                        Append(trace, LibReturn("getChainId", "", stateChainId)))
       IN  /\ pc' = next.pc
           /\ trace' = next.trace
           /\ result' = next.result
    /\ UNCHANGED <<impl, args, props, stateChainId, timers, fallbackResult>>
    /\ UNCHANGED <<transactionVars, chainVars>>

\* connector.getChainId() rejects: the await is outside every try
GetChainIdRejects(err) ==
    /\ pc = "getChainId"
    /\ pc' = "done"
    /\ trace' = Append(trace, LibThrow("getChainId", err, stateChainId))
    /\ result' = Rejected(err.name)
    /\ UNCHANGED <<impl, args, props, chainID, stateChainId, timers, fallbackResult>>
    /\ UNCHANGED <<transactionVars, chainVars>>

\* switchChain resolves: the library has made args.chainID the active chain
SwitchChainResolves ==
    /\ pc = "switchChain"
    /\ stateChainId' = args.chainID
    /\ LET next == ContractInteraction(impl, args, props, chainID, args.chainID,
                        Append(trace, LibReturn("switchChain", "", args.chainID)))
       IN  /\ pc' = next.pc
           /\ trace' = next.trace
           /\ result' = next.result
    /\ UNCHANGED <<impl, args, props, chainID, timers, fallbackResult>>
    /\ UNCHANGED <<transactionVars, chainVars>>

\* catch (error) { ... } of the chain switch
SwitchChainRejects(err) ==
    /\ pc = "switchChain"
    /\ pc' = "done"
    /\ LET log == Append(trace, LibThrow("switchChain", err, stateChainId))
       IN  trace' = IF ~err.base
                    THEN log
                    ELSE Append(log, StatusCall(ErrorStatus(impl, "Error switching chain"),
                                                stateChainId))
    /\ result' = Resolved(FALSE, "none", err.name)
    /\ UNCHANGED <<impl, args, props, chainID, stateChainId, timers, fallbackResult>>
    /\ UNCHANGED <<transactionVars, chainVars>>

\* simulateContract resolves: await writeContract(config, simulateContractConfig.request)
SimulateContractResolves ==
    /\ pc = "simulateContract"
    /\ pc' = "writeContract"
    /\ trace' = trace \o <<LibReturn("simulateContract", "", stateChainId),
                           LibCall("writeContract", 0, stateChainId)>>
    /\ UNCHANGED <<impl, args, props, chainID, stateChainId, result, timers,
                   fallbackResult>>
    /\ UNCHANGED <<transactionVars, chainVars>>

\* writeContract resolves with a hash: await waitForTransactionReceipt(config, {chainId, ...})
WriteContractResolves ==
    /\ pc = "writeContract"
    /\ pc' = "waitForTransactionReceipt"
    /\ trace' = trace \o <<LibReturn("writeContract", "hash", stateChainId),
                           LibCall("waitForTransactionReceipt",
                                   LocalChainId(impl, chainID, stateChainId), stateChainId)>>
    /\ UNCHANGED <<impl, args, props, chainID, stateChainId, result, timers,
                   fallbackResult>>
    /\ UNCHANGED <<transactionVars, chainVars>>

\* waitForTransactionReceipt resolves with a receipt
WaitForTransactionReceiptResolves(status) ==
    /\ pc = "waitForTransactionReceipt"
    /\ pc' = "done"
    /\ trace' = trace \o <<LibReturn("waitForTransactionReceipt", status, stateChainId),
                           StatusCall(ReceiptStatus(impl, status), stateChainId)>>
    /\ result' = ReceiptResult(status)
    /\ timers' = Finally(args, timers)
    /\ UNCHANGED <<impl, args, props, chainID, stateChainId, fallbackResult>>
    /\ UNCHANGED <<transactionVars, chainVars>>

\* simulateContract, writeContract or waitForTransactionReceipt throws
ContractInteractionThrows(err) ==
    /\ pc \in {"simulateContract", "writeContract", "waitForTransactionReceipt"}
    /\ LET next == Catch(impl, args, err, stateChainId,
                         Append(trace, LibThrow(pc, err, stateChainId)))
       IN  /\ pc' = next.pc
           /\ trace' = next.trace
           /\ result' = next.result
           /\ timers' = IF next.pc = "done" THEN Finally(args, timers) ELSE timers
    /\ UNCHANGED <<impl, args, props, chainID, stateChainId, fallbackResult>>
    /\ UNCHANGED <<transactionVars, chainVars>>

\* return await args.onTrySomethingElse() resolves
OnTrySomethingElseResolves(r) ==
    /\ pc = "onTrySomethingElse"
    /\ pc' = "done"
    /\ trace' = Append(trace, LibReturn("onTrySomethingElse", "", stateChainId))
    /\ fallbackResult' = r
    /\ result' = r
    /\ timers' = Finally(args, timers)
    /\ UNCHANGED <<impl, args, props, chainID, stateChainId>>
    /\ UNCHANGED <<transactionVars, chainVars>>

\* args.onTrySomethingElse() rejects inside the catch block
OnTrySomethingElseRejects(err) ==
    /\ pc = "onTrySomethingElse"
    /\ pc' = "done"
    /\ trace' = Append(trace, LibThrow("onTrySomethingElse", err, stateChainId))
    /\ result' = Rejected(err.name)
    /\ timers' = Finally(args, timers)
    /\ UNCHANGED <<impl, args, props, chainID, stateChainId, fallbackResult>>
    /\ UNCHANGED <<transactionVars, chainVars>>

\* setTimeout((): void => { args.statusHandler?.({...defaultTxStatus}) }, 3000) runs
ResetTimerFires ==
    /\ timers # <<>>
    /\ timers' = Tail(timers)
    /\ trace' = Append(trace, TimerCall(defaultTxStatus, Head(timers), stateChainId))
    /\ UNCHANGED <<impl, args, props, pc, chainID, stateChainId, result, fallbackResult>>
    /\ UNCHANGED <<transactionVars, chainVars>>

\* Another actor (the user in the wallet) changes the active chain during an await.
ChainChanged(c) ==
    /\ pc \in Awaiting
    /\ c # stateChainId
    /\ stateChainId' = c
    /\ UNCHANGED <<impl, args, props, pc, chainID, trace, result, timers, fallbackResult>>
    /\ UNCHANGED <<transactionVars, chainVars>>

NextTx ==
    \/ \E i \in Impls, a \in ArgsSet, p \in PropsSet : HandleTx(i, a, p)
    \/ GetChainIdResolves
    \/ \E err \in Errors : GetChainIdRejects(err)
    \/ SwitchChainResolves
    \/ \E err \in Errors : SwitchChainRejects(err)
    \/ SimulateContractResolves
    \/ WriteContractResolves
    \/ \E status \in {"success", "reverted"} : WaitForTransactionReceiptResolves(status)
    \/ \E err \in Errors : ContractInteractionThrows(err)
    \/ \E r \in FallbackResults : OnTrySomethingElseResolves(r)
    \/ \E err \in Errors : OnTrySomethingElseRejects(err)
    \/ ResetTimerFires
    \/ \E c \in Chains : ChainChanged(c)

(***************************************************************************)
(* Transaction                                                             *)
(***************************************************************************)
\* How many populate() calls a Transaction receives.
MaxPopulates == 2

\* Argument lists a caller passes to populate().
ArgLists == {<<>>, <<"amount">>, <<"spender", "amount">>}

\* options?: {shouldIgnoreSuccessTxStatusChange: boolean}
OptionsSet == {"undefined", "true", "false"}

\* What funcCall can resolve with; error: none, one without message, one with a message.
FuncResults == [isSuccessful : BOOLEAN, receipt : BOOLEAN,
                error : {"undefined", "", "insufficient funds"}]

\* What funcCall or the success callback can throw ("" for an absent field).
ThrownErrors == { [shortMessage |-> "", message |-> ""],
                  [shortMessage |-> "", message |-> "network down"],
                  [shortMessage |-> UserRejected, message |-> "rejected: details"] }

NoFuncResult == [isSuccessful |-> FALSE, receipt |-> FALSE, error |-> "undefined"]
NoTxResult == [settled |-> "no", isSuccessful |-> FALSE, receipt |-> FALSE]
TxResolved(ok, receipt) == [settled |-> "resolved", isSuccessful |-> ok, receipt |-> receipt]

TxEvent(ev, fn, status, list, delay) ==
    [ev |-> ev, fn |-> fn, status |-> status, args |-> list, delay |-> delay]
OnStatus(status, delay) == TxEvent("call", "onStatus", status, <<>>, delay)

\* a || b on strings
OrElse(a, b) == IF a = "" THEN b ELSE a

\* (error as TBaseError)?.message || 'Transaction failed'
ErrorMessage(error) == OrElse(IF error = "undefined" THEN "" ELSE error, "Transaction failed")

\* err?.shortMessage || err?.message || 'Transaction failed'
ThrownMessage(err) == OrElse(OrElse(err.shortMessage, err.message), "Transaction failed")

\* populate(...txArgs): this.txArgs = txArgs
Populated(t, list) == [t EXCEPT !.txArgs = [defined |-> TRUE, list |-> list]]

\* const args = (this.txArgs || []); this.funcCall(this.provider, ...args)
FuncCallArgs(t) == <<"provider">> \o (IF t.txArgs.defined THEN t.txArgs.list ELSE <<>>)

\* this?.options?.shouldIgnoreSuccessTxStatusChange
ShouldIgnoreSuccess(t) == t.options = "true"

\* Mutant: the error status is set but no reset is scheduled.
OnHandleError_NoTimer(msg, log, t) ==
    [pc |-> "done",
     trace |-> Append(log, OnStatus([errorTxStatus EXCEPT !.errorMessage = msg], 0)),
     timers |-> t,
     result |-> TxResolved(FALSE, FALSE)]

\* onHandleError(error), then return {isSuccessful: false}
OnHandleError(msg, log, t) ==
    [pc |-> "done",
     trace |-> Append(log, OnStatus([errorTxStatus EXCEPT !.errorMessage = msg], 0)),
     timers |-> Append(t, timeout),
     result |-> TxResolved(FALSE, FALSE)]

\* The rest of the isSuccessful branch after the success callback.
AfterSuccessCall(t, r, log, tm) ==
    IF ShouldIgnoreSuccess(t)
    THEN [pc |-> "done", trace |-> log, timers |-> tm,
          result |-> TxResolved(r.isSuccessful, r.receipt)]
    ELSE [pc |-> "done", trace |-> Append(log, OnStatus(successTxStatus, 0)),
          timers |-> Append(tm, timeout),
          result |-> TxResolved(r.isSuccessful, r.receipt)]

\* if (this.successCall && receipt)
CallsSuccessCall(t, r) == t.successCall /\ r.receipt

\* The code after await this.funcCall(...) resolved with r.
AfterFuncCall(t, r, log, tm) ==
    IF r.isSuccessful
    THEN IF CallsSuccessCall(t, r)
         THEN [pc |-> "successCall",
               trace |-> Append(log, TxEvent("call", "successCall", defaultTxStatus,
                                             <<"receipt">>, 0)),
               timers |-> tm, result |-> NoTxResult]
         ELSE AfterSuccessCall(t, r, log, tm)
    ELSE OnHandleError(ErrorMessage(r.error), log, tm)

InitTransaction ==
    /\ tx \in [options : OptionsSet, txArgs : {[defined |-> FALSE, list |-> <<>>]},
               successCall : {FALSE}]
    /\ txPc = "idle"
    /\ txTrace = <<>>
    /\ txResult = NoTxResult
    /\ txTimers = <<>>
    /\ funcResult = NoFuncResult

\* populate(...txArgs)
Populate(list) ==
    /\ Cardinality({k \in DOMAIN txTrace : txTrace[k].fn = "populate"}) < MaxPopulates
    /\ tx' = Populated(tx, list)
    /\ txTrace' = Append(txTrace, TxEvent("call", "populate", defaultTxStatus, list, 0))
    /\ UNCHANGED <<txPc, txResult, txTimers, funcResult>>
    /\ UNCHANGED <<txVars, chainVars>>

\* onSuccess(onSuccess)
OnSuccess ==
    /\ ~tx.successCall
    /\ tx' = [tx EXCEPT !.successCall = TRUE]
    /\ txTrace' = Append(txTrace, TxEvent("call", "onSuccess", defaultTxStatus, <<>>, 0))
    /\ UNCHANGED <<txPc, txResult, txTimers, funcResult>>
    /\ UNCHANGED <<txVars, chainVars>>

\* perform() up to await this.funcCall(this.provider, ...args)
Perform ==
    /\ txPc = "idle"
    /\ txPc' = "funcCall"
    /\ txTrace' = txTrace \o
                   <<OnStatus(pendingTxStatus, 0),
                     TxEvent("call", "funcCall", defaultTxStatus, FuncCallArgs(tx), 0)>>
    /\ UNCHANGED <<tx, txResult, txTimers, funcResult>>
    /\ UNCHANGED <<txVars, chainVars>>

\* funcCall resolves with {isSuccessful, receipt, error}
FuncCallResolves(r) ==
    /\ txPc = "funcCall"
    /\ funcResult' = r
    /\ LET next == AfterFuncCall(tx, r, Append(txTrace,
                        TxEvent("return", "funcCall", defaultTxStatus, <<>>, 0)), txTimers)
       IN  /\ txPc' = next.pc
           /\ txTrace' = next.trace
           /\ txTimers' = next.timers
           /\ txResult' = next.result
    /\ UNCHANGED tx
    /\ UNCHANGED <<txVars, chainVars>>

\* funcCall rejects: catch (error) { this.onHandleError(...) }
FuncCallRejects(err) ==
    /\ txPc = "funcCall"
    /\ LET next == OnHandleError(ThrownMessage(err), Append(txTrace,
                        TxEvent("throw", "funcCall", defaultTxStatus, <<>>, 0)), txTimers)
       IN  /\ txPc' = next.pc
           /\ txTrace' = next.trace
           /\ txTimers' = next.timers
           /\ txResult' = next.result
    /\ UNCHANGED <<tx, funcResult>>
    /\ UNCHANGED <<txVars, chainVars>>

\* await this.successCall(receipt) resolves
SuccessCallResolves ==
    /\ txPc = "successCall"
    /\ LET next == AfterSuccessCall(tx, funcResult, Append(txTrace,
                        TxEvent("return", "successCall", defaultTxStatus, <<>>, 0)),
                        txTimers)
       IN  /\ txPc' = next.pc
           /\ txTrace' = next.trace
           /\ txTimers' = next.timers
           /\ txResult' = next.result
    /\ UNCHANGED <<tx, funcResult>>
    /\ UNCHANGED <<txVars, chainVars>>

\* this.successCall(receipt) rejects: catch (error) { this.onHandleError(...) }
SuccessCallRejects(err) ==
    /\ txPc = "successCall"
    /\ LET next == OnHandleError(ThrownMessage(err), Append(txTrace,
                        TxEvent("throw", "successCall", defaultTxStatus, <<>>, 0)), txTimers)
       IN  /\ txPc' = next.pc
           /\ txTrace' = next.trace
           /\ txTimers' = next.timers
           /\ txResult' = next.result
    /\ UNCHANGED <<tx, funcResult>>
    /\ UNCHANGED <<txVars, chainVars>>

\* setTimeout((): void => this.onStatus(defaultTxStatus), timeout) runs
TxTimerFires ==
    /\ txTimers # <<>>
    /\ txTimers' = Tail(txTimers)
    /\ txTrace' = Append(txTrace, OnStatus(defaultTxStatus, Head(txTimers)))
    /\ UNCHANGED <<tx, txPc, txResult, funcResult>>
    /\ UNCHANGED <<txVars, chainVars>>

NextTransaction ==
    \/ \E list \in ArgLists : Populate(list)
    \/ OnSuccess
    \/ Perform
    \/ \E r \in FuncResults : FuncCallResolves(r)
    \/ \E err \in ThrownErrors : FuncCallRejects(err)
    \/ SuccessCallResolves
    \/ \E err \in ThrownErrors : SuccessCallRejects(err)
    \/ TxTimerFires

(***************************************************************************)
(* ChainProvider                                                           *)
(***************************************************************************)
NETWORKS == << [id |-> 10, name |-> <<"O", "p", "t", "i", "m", "i", "s", "m">>],
               [id |-> 8453, name |-> <<"B", "a", "s", "e">>] >>

NoNetwork == [id |-> 0, name |-> <<>>]

\* Chain ids the wallet or the hook can report (0: undefined).
ChainIds == {1, 10, 137, 8453}

\* Values of the URL parameter 'chain' (<<>>: undefined or empty).
Slugs == { <<>>,
           <<"o", "p", "t", "i", "m", "i", "s", "m">>,
           <<"O", "P", "T", "I", "M", "I", "S", "M">>,
           <<"O", "p", "t", "i", "m", "i", "s", "m">>,
           <<"b", "a", "s", "e">>,
           <<"B", "A", "S", "E">>,
           <<"b", "a", "s">>,
           <<"m", "a", "i", "n", "n", "e", "t">> }

\* String.prototype.toLowerCase on one character
LowerChar(c) ==
    CASE c = "A" -> "a" [] c = "B" -> "b" [] c = "E" -> "e" [] c = "I" -> "i"
      [] c = "M" -> "m" [] c = "N" -> "n" [] c = "O" -> "o" [] c = "P" -> "p"
      [] c = "S" -> "s" [] c = "T" -> "t" [] OTHER -> c

toLowerCase(s) == [k \in DOMAIN s |-> LowerChar(s[k])]

\* NETWORKS.find(...): the first of the matching elements, NoNetwork for undefined
Find(hits) ==
    IF hits = {} THEN NoNetwork
    ELSE NETWORKS[CHOOSE k \in hits : \A j \in hits : k <= j]

\* const urlChain = useMemo(...)
urlChain(slug) ==
    IF slug = <<>> THEN NoNetwork
    ELSE Find({k \in DOMAIN NETWORKS :
                   toLowerCase(NETWORKS[k].name) = toLowerCase(slug)})

\* Mutant: only the hook chain is looked at, the wallet chain is ignored.
isChainSupported_HookOnly(account, from) ==
    \E k \in DOMAIN NETWORKS : NETWORKS[k].id = from

\* const isChainSupported = useMemo(...)
isChainSupported(account, from) ==
    LET currentChainID == IF account # 0 THEN account ELSE from
    IN  \E k \in DOMAIN NETWORKS : NETWORKS[k].id = currentChainID

\* const currentChain = useMemo(...)
currentChain(account, from, slug) ==
    IF ~isChainSupported(account, from)
    THEN [chainID |-> NETWORKS[1].id, source |-> "hook", network |-> NETWORKS[1]]
    ELSE IF urlChain(slug) # NoNetwork
    THEN [chainID |-> urlChain(slug).id, source |-> "url", network |-> urlChain(slug)]
    ELSE IF account # 0
    THEN [chainID |-> account, source |-> "account",
          network |-> Find({k \in DOMAIN NETWORKS : NETWORKS[k].id = account})]
    ELSE [chainID |-> from, source |-> "hook",
          network |-> Find({k \in DOMAIN NETWORKS : NETWORKS[k].id = from})]

\* First render: no wallet connected, the hook on the first configured chain, no slug.
InitChain ==
    /\ accountChainID = 0
    /\ fromChainID = Head(NETWORKS).id
    /\ chainSlug = <<>>
    /\ context = currentChain(accountChainID, fromChainID, chainSlug)

\* The wallet connects, disconnects or changes chain; ChainProvider renders again.
AccountChanged(c) ==
    /\ c # accountChainID
    /\ accountChainID' = c
    /\ context' = currentChain(c, fromChainID, chainSlug)
    /\ UNCHANGED <<fromChainID, chainSlug>>
    /\ UNCHANGED <<txVars, transactionVars>>

\* useChainId() reports another chain; ChainProvider renders again.
HookChainChanged(c) ==
    /\ c # fromChainID
    /\ fromChainID' = c
    /\ context' = currentChain(accountChainID, c, chainSlug)
    /\ UNCHANGED <<accountChainID, chainSlug>>
    /\ UNCHANGED <<txVars, transactionVars>>

\* Navigation changes the URL parameter; ChainProvider renders again.
Navigate(slug) ==
    /\ slug # chainSlug
    /\ chainSlug' = slug
    /\ context' = currentChain(accountChainID, fromChainID, slug)
    /\ UNCHANGED <<accountChainID, fromChainID>>
    /\ UNCHANGED <<txVars, transactionVars>>

NextChain ==
    \/ \E c \in ChainIds \cup {0} : AccountChanged(c)
    \/ \E c \in ChainIds : HookChainChanged(c)
    \/ \E slug \in Slugs : Navigate(slug)

(***************************************************************************)
(* Specifications: one per component, the other components at rest.        *)
(***************************************************************************)
IdleTx ==
    /\ InitTx
    /\ stateChainId = 10

IdleTransaction ==
    /\ InitTransaction
    /\ tx.options = "undefined"

IdleChain == InitChain

Init == InitTx /\ IdleTransaction /\ IdleChain
Next == NextTx
Spec == Init /\ [][Next]_vars

TransactionInit == IdleTx /\ InitTransaction /\ IdleChain
TransactionNext == NextTransaction
TransactionSpec == TransactionInit /\ [][TransactionNext]_vars

ChainInit == IdleTx /\ IdleTransaction /\ InitChain
ChainNext == NextChain
ChainSpec == ChainInit /\ [][ChainNext]_vars

TransactionFairSpec ==
    /\ TransactionSpec
    /\ WF_vars(TxTimerFires)
    /\ WF_vars(\E r \in FuncResults : FuncCallResolves(r))
    /\ WF_vars(SuccessCallResolves)

(***************************************************************************)
(* Reading the trace of handleTx                                           *)
(***************************************************************************)
At(fn, ev) == {k \in DOMAIN trace : trace[k].fn = fn /\ trace[k].ev = ev}
Called(fn) == At(fn, "call")
Returned(fn) == At(fn, "return")
Threw(fn) == At(fn, "throw")

LibraryCalls ==
    Called("switchChain") \cup Called("simulateContract") \cup Called("writeContract")
        \cup Called("waitForTransactionReceipt")

\* Status calls made by handleTx itself (not by a timer) after the pending one.
OutcomeStatuses ==
    {k \in Called("statusHandler") : trace[k].delay = 0 /\ ~trace[k].status.pending}
PendingStatuses == {k \in Called("statusHandler") : trace[k].status.pending}
ResetStatuses ==
    {k \in Called("statusHandler") : trace[k].delay # 0 /\ trace[k].status = defaultTxStatus}

Before(S, T) == \A j \in S, k \in T : j < k
ReceiptReturned(status) ==
    \E k \in Returned("waitForTransactionReceipt") : trace[k].value = status
LastOutcome == trace[CHOOSE k \in OutcomeStatuses : \A j \in OutcomeStatuses : j <= k]

(***************************************************************************)
(* C1: in every run of handleTx the external calls happen in the order     *)
(* statusHandler(pending), switchChain (only if the active chain differs   *)
(* from args.chainID), simulateContract, writeContract,                    *)
(* waitForTransactionReceipt, final status; writeContract is called only   *)
(* after simulateContract returned and waitForTransactionReceipt only      *)
(* after writeContract returned a hash.                                    *)
(***************************************************************************)
C1_CallOrder ==
    /\ trace # <<>> => trace[1] = StatusCall(WithPending(defaultTxStatus), trace[1].active)
    /\ Cardinality(PendingStatuses) <= 1
    /\ \A fn \in {"switchChain", "simulateContract", "writeContract",
                  "waitForTransactionReceipt"} : Cardinality(Called(fn)) <= 1
    /\ \A k \in Called("switchChain") : trace[k].active # args.chainID
    /\ Before(PendingStatuses, LibraryCalls \cup OutcomeStatuses)
    /\ Before(Called("switchChain"), Called("simulateContract"))
    /\ Before(Called("simulateContract"), Called("writeContract"))
    /\ Before(Called("writeContract"), Called("waitForTransactionReceipt"))
    /\ Before(LibraryCalls, OutcomeStatuses)
    /\ Cardinality(OutcomeStatuses) <= 1
    /\ \A k \in Called("writeContract") :
           \E j \in Returned("simulateContract") : j < k
    /\ \A k \in Called("waitForTransactionReceipt") :
           \E j \in Returned("writeContract") : j < k /\ trace[j].value = "hash"

C1_Witness ==
    /\ pc = "done"
    /\ Called("switchChain") # {}
    /\ ReceiptReturned("success")
    /\ OutcomeStatuses # {}

(***************************************************************************)
(* C2: simulateContract, writeContract and waitForTransactionReceipt are   *)
(* only invoked while the active chain id equals args.chainID, and the     *)
(* chainId passed to simulateContract and to waitForTransactionReceipt     *)
(* equals args.chainID, even if another actor changes the active chain     *)
(* while handleTx awaits a step.                                           *)
(***************************************************************************)
C2_CorrectChain ==
    \A k \in DOMAIN trace :
        /\ trace[k].ev = "call"
        /\ trace[k].fn \in {"simulateContract", "writeContract", "waitForTransactionReceipt"}
        => /\ trace[k].active = args.chainID
           /\ trace[k].fn # "writeContract" => trace[k].chainId = args.chainID

(***************************************************************************)
(* C3: in tools.transactions.ts, when connector.getChainId() differs from  *)
(* args.chainID and switchChain succeeds, the run goes on to               *)
(* simulateContract (and then to writeContract and the receipt).           *)
(***************************************************************************)
C3_SwitchThenContinue ==
    (IsTools(impl) /\ props.address = "valid" /\ Returned("switchChain") # {})
        => /\ Called("simulateContract") # {}
           /\ result.settled # "rejected"

(***************************************************************************)
(* C4 as stated: handleTx resolves with isSuccessful = true if and only if *)
(* waitForTransactionReceipt returned a receipt of status 'success'; then  *)
(* the receipt is returned and the last outcome status has success: true;  *)
(* a 'reverted' receipt gives isSuccessful = false with the receipt and an *)
(* outcome status with error: true.                                        *)
(***************************************************************************)
C4_ReceiptOutcome ==
    /\ ReceiptReturned("success")
           => /\ result = Resolved(TRUE, "success", "")
              /\ OutcomeStatuses # {}
              /\ LastOutcome.status.success
    /\ ReceiptReturned("reverted")
           => /\ result = Resolved(FALSE, "reverted", "")
              /\ OutcomeStatuses # {}
              /\ LastOutcome.status.error

C4_SuccessIffReceipt ==
    /\ (result.settled = "resolved" /\ result.isSuccessful) <=> ReceiptReturned("success")
    /\ C4_ReceiptOutcome

(***************************************************************************)
(* C4 as amended: isSuccessful = true if and only if the receipt has       *)
(* status 'success' or, in tools.transactions.ts, the fallback             *)
(* onTrySomethingElse was invoked and resolved with isSuccessful = true.   *)
(***************************************************************************)
C4_SuccessIffReceiptOrFallback ==
    /\ (result.settled = "resolved" /\ result.isSuccessful)
           <=> \/ ReceiptReturned("success")
               \/ /\ IsTools(impl)
                  /\ Returned("onTrySomethingElse") # {}
                  /\ fallbackResult.isSuccessful
    /\ C4_ReceiptOutcome

C4_Witness ==
    /\ pc = "done"
    /\ ReceiptReturned("success")
    /\ result.isSuccessful
    /\ LastOutcome.status.success

(***************************************************************************)
(* C5: with shouldResetStatus true or omitted every run that emitted the   *)
(* pending status is followed, 3000 ms after it finishes, by               *)
(* statusHandler(defaultTxStatus), whatever its outcome; with              *)
(* shouldResetStatus false no reset is made.  As a final result: once the  *)
(* run is over and no timer is left, the reset was made exactly when       *)
(* shouldResetStatus is not false.                                         *)
(***************************************************************************)
C5_ResetAfterRun ==
    /\ \A k \in ResetStatuses : ShouldResetStatus(args) /\ trace[k].delay = timeout
    /\ (pc = "done" /\ timers = <<>> /\ PendingStatuses # {} /\ ShouldResetStatus(args))
           => ResetStatuses # {}

(***************************************************************************)
(* Reading the trace of Transaction                                        *)
(***************************************************************************)
TxAt(fn, ev) == {k \in DOMAIN txTrace : txTrace[k].fn = fn /\ txTrace[k].ev = ev}
TxCalled(fn) == TxAt(fn, "call")
TxReturned(fn) == TxAt(fn, "return")

\* What perform() itself did: everything but the builder calls.
PerformEvents == {k \in DOMAIN txTrace : txTrace[k].fn \notin {"populate", "onSuccess"}}
TxOutcomes ==
    {k \in TxCalled("onStatus") : txTrace[k].status.success \/ txTrace[k].status.error}
TxSuccesses == {k \in TxCalled("onStatus") : txTrace[k].status = successTxStatus}
TxResets == {k \in TxCalled("onStatus") : txTrace[k].status = defaultTxStatus}

\* The arguments of the most recent populate() call before position k.
LastPopulateBefore(k) ==
    LET P == {j \in TxCalled("populate") : j < k}
    IN  IF P = {} THEN <<>> ELSE txTrace[CHOOSE j \in P : \A i \in P : i <= j].args

\* A success callback was configured when funcCall returned.
ConfiguredAtReturn ==
    \E j \in TxCalled("onSuccess"), k \in TxReturned("funcCall") : j < k

C6_PendingFirst ==
    PerformEvents # {} =>
        txTrace[CHOOSE k \in PerformEvents : \A j \in PerformEvents : k <= j]
            = OnStatus(pendingTxStatus, 0)

C6_FuncCallOnce ==
    /\ txPc # "idle" => Cardinality(TxCalled("funcCall")) = 1
    /\ \A k \in TxCalled("funcCall") :
           txTrace[k].args = <<"provider">> \o LastPopulateBefore(k)

C6_ResetLast ==
    \A k \in TxResets :
        /\ txTrace[k].delay = timeout
        /\ \E j \in TxOutcomes : j < k

(***************************************************************************)
(* C6 as stated: perform() calls onStatus(pending) first, then funcCall    *)
(* exactly once with the provider and the arguments of the most recent     *)
(* populate(); if the result is successful and a success callback is       *)
(* configured, the callback has completed before onStatus(success); and    *)
(* onStatus(defaultTxStatus) comes only after the success or error status, *)
(* 3000 ms later.                                                          *)
(***************************************************************************)
C6_PerformOrder ==
    /\ C6_PendingFirst
    /\ C6_FuncCallOnce
    /\ C6_ResetLast
    /\ \A k \in TxSuccesses :
           (funcResult.isSuccessful /\ ConfiguredAtReturn)
               => \E j \in TxReturned("successCall") : j < k

(***************************************************************************)
(* C7 as stated, as a final result: every run of perform() calls           *)
(* onStatus(defaultTxStatus) after the timeout, for every outcome of       *)
(* funcCall and every value of the options: once perform() has returned    *)
(* and no timer is left, the reset has been made.                          *)
(***************************************************************************)
C7_ResetAfterPerform ==
    (txPc = "done" /\ txTimers = <<>>) => TxResets # {}

\* perform() returned early on shouldIgnoreSuccessTxStatusChange: no status, no timer.
IgnoredSuccess ==
    /\ txPc = "done"
    /\ ShouldIgnoreSuccess(tx)
    /\ funcResult.isSuccessful
    /\ txResult.isSuccessful
    /\ TxOutcomes = {}

(***************************************************************************)
(* C7 as amended: every run of perform() whose funcCall and success        *)
(* callback settle eventually calls onStatus(defaultTxStatus), except the  *)
(* successful run with options.shouldIgnoreSuccessTxStatusChange set,      *)
(* which emits neither the success status nor the reset.                   *)
(***************************************************************************)
C7_ResetUnlessIgnored ==
    [](txPc # "idle" => <>(TxResets # {} \/ IgnoredSuccess))

C7_Witness ==
    /\ txPc = "done"
    /\ TxResets # {}
    /\ \E k \in TxOutcomes : txTrace[k].status.error

(***************************************************************************)
(* C8: whenever the URL parameter 'chain' equals, case-insensitively, the  *)
(* name of a network in NETWORKS, the provided context is that network     *)
(* with source 'url', for every wallet chain id and hook chain id.         *)
(***************************************************************************)
C8_UrlChainFirst ==
    \A n \in DOMAIN NETWORKS :
        (chainSlug # <<>> /\ toLowerCase(NETWORKS[n].name) = toLowerCase(chainSlug))
            => context = [chainID |-> NETWORKS[n].id, source |-> "url",
                          network |-> NETWORKS[n]]

C10_Fallback ==
    /\ Cardinality(Called("onTrySomethingElse")) <= 1
    /\ \A k \in Called("onTrySomethingElse") :
           /\ IsTools(impl)
           /\ args.onTrySomethingElse
           /\ k > 1
           /\ trace[k - 1].ev = "throw"
           /\ trace[k - 1].fn \in {"simulateContract", "writeContract",
                                   "waitForTransactionReceipt"}
           /\ trace[k - 1].error.base
           /\ trace[k - 1].error.name = ExecutionError
           /\ trace[k - 1].error.shortMessage # UserRejected
    /\ Returned("onTrySomethingElse") # {} => pc = "done" /\ result = fallbackResult
    /\ Called("onTrySomethingElse") # {}
           => \A k \in Called("statusHandler") : ~trace[k].status.error
    /\ Threw("switchChain") # {} => Called("onTrySomethingElse") = {}

C10_Witness ==
    /\ pc = "done"
    /\ Returned("onTrySomethingElse") # {}
    /\ Threw("waitForTransactionReceipt") # {}
    /\ result.isSuccessful

(***************************************************************************)
(* C11: handleTx of tools.transactions.ts validates its configuration      *)
(* first: when config, props.address or connector is missing it resolves   *)
(* with {isSuccessful: false, error} and has called none of statusHandler, *)
(* connector.getChainId, switchChain, simulateContract, writeContract,     *)
(* waitForTransactionReceipt, nor scheduled any reset timer.               *)
(***************************************************************************)
C11_ValidatesFirst ==
    (/\ IsTools(impl)
     /\ ~args.config \/ props.address = "undefined" \/ ~args.connector)
        => /\ pc = "done"
           /\ result.settled = "resolved"
           /\ ~result.isSuccessful
           /\ result.receipt = "none"
           /\ result.error = "Invalid config or connector or address"
           /\ \A fn \in {"statusHandler", "getChainId", "switchChain", "simulateContract",
                         "writeContract", "waitForTransactionReceipt"} : Called(fn) = {}
           /\ trace = <<>>
           /\ timers = <<>>

C11_Witness ==
    /\ IsTools(impl)
    /\ args.config
    /\ args.connector
    /\ props.address = "undefined"
    /\ ShouldResetStatus(args)
    /\ pc = "done"
    /\ result.settled = "resolved"

====
